---- MODULE Spec2Model ----
(***************************************************************************)
(* The startup modes of src-electron/main-process/startup.js: the four     *)
(* promise chains startNormal, startSelfCheck, startGeneration and         *)
(* startSdkGeneration, and the maintenance operation clearDatabaseFile.    *)
(*                                                                         *)
(* A promise chain is modelled one callback at a time.  An invocation is   *)
(* "pending" while the collaborator call made by the last callback is in   *)
(* progress, "resolved" when that call succeeded and the next .then        *)
(* callback has not run yet, "rejected" when a call failed and the .catch  *)
(* callback has not run yet, "fulfilled" / "failed" when the promise the   *)
(* chain ends in has settled, and "threw" when the entry point raised a    *)
(* synchronous exception before the chain was built.                       *)
(***************************************************************************)
EXTENDS Integers, Sequences, FiniteSets, TLC

VARIABLES
    fs,            \* directory: path -> inode of the file there, or NoFile
    disk,          \* inode -> content of the database file
    mainDatabase,  \* env.mainDatabase(): the handle env.resolveMainDatabase stored
    inv,           \* the invocations of the entry points
    envLog,        \* the diagnostic sink: env.logError / logInfo records
    console,       \* console.log lines
    quitCalls,     \* app.quit() calls, by invocation
    serverUp,      \* httpServer.initHttpServer succeeded
    uiShown,       \* windowJs.initializeElectronUi was called
    dockHidden,    \* app.dock.hide() was called
    output,        \* files written by the generators
    exitCode,      \* disposition of the process: "resident", "zero", "nonzero"
    creates,       \* number of live database files created from outside
    lastClear      \* trace of the most recent clearDatabaseFile call

vars == <<fs, disk, mainDatabase, inv, envLog, console, quitCalls, serverUp,
          uiShown, dockHidden, output, exitCode, creates, lastClear>>

----------------------------------------------------------------------------
(* Bounds *)

\* number of times a live database file is created by an earlier/other run
MaxCreates == 1

\* largest number of clusters, of attributes and of commands a custom
\* metadata file declares
MaxRows == 2

----------------------------------------------------------------------------
(* Values *)

\* fs.existsSync(path) is false: no file at the path
NoFile == 0
NoHandle == [ino |-> 0, path |-> "none"]

Invs == {1, 2}

\* a flag of an options object: JavaScript true, false, or a missing property
Flag == {"true", "false", "undefined"}

\* JavaScript truthiness of a flag, as `if (options.x)` evaluates it
Truthy(f) == f = "true"

\* env.sqliteFile(filename): the database file of each mode
SqliteFile(name) ==
    CASE name = "zap"        -> "zap.sqlite"
      [] name = "self-check" -> "self-check.sqlite"
      [] name = "generate"   -> "generate.sqlite"
      [] name = "sdk-regen"  -> "sdk-regen.sqlite"

\* var pathBak = path + '~'
BackupOf(path) == IF path = "zap.sqlite" THEN "zap.sqlite~" ELSE "none"

Paths == {"zap.sqlite", "zap.sqlite~", "self-check.sqlite", "generate.sqlite",
          "sdk-regen.sqlite"}

\* the inode a file that exists before the process starts has
PreIno(path) ==
    CASE path = "zap.sqlite"        -> 1
      [] path = "zap.sqlite~"       -> 2
      [] path = "self-check.sqlite" -> 3
      [] path = "generate.sqlite"   -> 4
      [] path = "sdk-regen.sqlite"  -> 5

\* a database file as dbApi.initDatabase creates it
EmptyDb == [schema |-> FALSE, packages |-> <<>>, sessions |-> <<>>]

\* a database file an earlier run left behind
PriorDb == [schema |-> TRUE, packages |-> <<"zcl.properties", "gen-templates.json">>,
            sessions |-> <<{1, 2}>>]


\* the files that may exist before the process starts
InitialDisk == [k \in {PreIno(p) : p \in Paths} |-> PriorDb]

\* the file names the process is configured with (args.js) and test inputs
ZclPropertiesFile == "zcl.properties"
GenTemplateJsonFile == "gen-templates.json"

Modes == {"normal", "selfCheck", "generation", "sdkGeneration"}

Handle(ino, path) == [ino |-> ino, path |-> path]

Call(stage, db, arg, sessionId, packageId) ==
    [stage |-> stage, db |-> db, arg |-> arg, sessionId |-> sessionId,
     packageId |-> packageId]

NoCall == Call("none", NoHandle, "none", 0, 0)

Val(kind, db, packageId, sessionId) ==
    [kind |-> kind, db |-> db, packageId |-> packageId, sessionId |-> sessionId]

NoVal == Val("none", NoHandle, 0, 0)

Options(given, quit, cleanDb, log) ==
    [given |-> given, quit |-> quit, cleanDb |-> cleanDb, log |-> log]

\* no options argument passed
Omitted == Options(FALSE, "undefined", "undefined", "undefined")

\* the options objects a caller can pass
PassedOptions ==
    {Omitted} \cup {Options(TRUE, q, c, l) : q \in Flag, c \in Flag, l \in Flag}

\* the variables of the custom-cluster test: the content of the custom file,
\* the step to take next, let db, let sid, let customPackageId, and what the
\* awaited calls returned
NoTest == [fixture |-> <<>>, pc |-> 0, db |-> NoHandle, sid |-> 0,
           customPackageId |-> 0, seen |-> <<>>, failed |-> {}]

\* an entry point that was not called
Unused ==
    [mode |-> "none", uiEnabled |-> FALSE, showUrl |-> FALSE, noServer |-> FALSE,
     passed |-> Omitted, options |-> Omitted, zapFile |-> "null",
     zclArg |-> "undefined", dbFile |-> "none", status |-> "unused", pos |-> 0,
     call |-> NoCall, value |-> NoVal, packageId |-> 0, began |-> <<>>,
     done |-> <<>>, results |-> <<>>, calls |-> <<>>, ret |-> "none", preFile |-> NoFile, openSaw |-> NoFile,
     err |-> "none", reported |-> FALSE, test |-> NoTest]

Alive == exitCode = "resident"

Started == {i \in Invs : inv[i].mode # "none"}

----------------------------------------------------------------------------
Init ==
    /\ fs \in [Paths -> {NoFile, 1, 2, 3, 4, 5}]
    /\ \A p \in Paths : fs[p] \in {NoFile, PreIno(p)}
    /\ disk = InitialDisk
    /\ mainDatabase = NoHandle
    /\ inv = [i \in Invs |-> Unused]
    /\ envLog = <<>>
    /\ console = <<>>
    /\ quitCalls = <<>>
    /\ serverUp = FALSE
    /\ uiShown = FALSE
    /\ dockHidden = FALSE
    /\ output = {}
    /\ exitCode = "resident"
    /\ creates = 0
    /\ lastClear = <<"not called">>

----------------------------------------------------------------------------
(* The promise chain *)

\* a callback calls a collaborator and returns its promise: the stage begins
Begin(r, call) ==
    [r EXCEPT !.status = "pending", !.call = call, !.value = NoVal,
              !.began = Append(@, call.stage), !.calls = Append(@, call),
              !.pos = @ + 1]

\* a callback returns a plain value: the next promise resolves with it
Return(r, v) ==
    [r EXCEPT !.status = "resolved", !.call = NoCall, !.value = v, !.pos = @ + 1]

\* the last .then callback returned: .catch is passed over, the chain fulfils
Fulfil(r) ==
    [r EXCEPT !.status = "fulfilled", !.call = NoCall, !.value = NoVal,
              !.pos = @ + 1]

\* console.log(line)
Say(i, line) == Append(console, [by |-> i, line |-> line])

\* the console after `if (options.log) console.log(line)`
SayIf(cond, i, line) == IF cond THEN Say(i, line) ELSE console

\* the options parameter after its default value was applied
DefaultParameter(passed, default) == IF passed.given THEN passed ELSE default

----------------------------------------------------------------------------
(* Entry points: the synchronous part of each mode *)

\* function startNormal(uiEnabled, showUrl, uiMode)
StartNormal(i, uiEnabled, showUrl, noServer) ==
    /\ Alive
    /\ inv[i].mode = "none"
    /\ inv' = [inv EXCEPT ![i] =
                 Begin([Unused EXCEPT !.mode = "normal", !.uiEnabled = uiEnabled,
                                      !.showUrl = showUrl, !.noServer = noServer,
                                      !.dbFile = SqliteFile("zap"),
                                      !.preFile = fs[SqliteFile("zap")],
                                      !.openSaw = fs[SqliteFile("zap")],
                                      !.ret = "undefined"],
                       Call("initDatabase", NoHandle, SqliteFile("zap"), 0, 0))]
    /\ UNCHANGED <<fs, disk, mainDatabase, envLog, console, quitCalls, serverUp,
                   uiShown, dockHidden, output, exitCode, creates, lastClear>>

\* UnlinkFs with the deletion left out
UnlinkFs_Never(dbFile, discard, unlinkOk) == fs

\* the directory after
\* if (discard && fs.existsSync(dbFile)) fs.unlinkSync(dbFile)
UnlinkFs(dbFile, discard, unlinkOk) ==
    IF discard /\ fs[dbFile] # NoFile /\ unlinkOk
    THEN [fs EXCEPT ![dbFile] = NoFile]
    ELSE fs

\* UnlinkThenInit with the failure of fs.unlinkSync caught and ignored
UnlinkThenInit_Swallow(r, discard, unlinkOk, ret) ==
    Begin([r EXCEPT !.ret = ret, !.preFile = fs[r.dbFile],
                    !.err = IF discard /\ fs[r.dbFile] # NoFile /\ ~unlinkOk
                            THEN "unlinkSync" ELSE "none",
                    !.openSaw = UnlinkFs(r.dbFile, discard, unlinkOk)[r.dbFile]],
          Call("initDatabase", NoHandle, r.dbFile, 0, 0))

\* if (discard && fs.existsSync(dbFile)) fs.unlinkSync(dbFile), then
\* dbApi.initDatabase(dbFile): the record of the invocation afterwards.
\* unlinkOk is the outcome of fs.unlinkSync, which throws when it fails.
UnlinkThenInit(r, discard, unlinkOk, ret) ==
    IF discard /\ fs[r.dbFile] # NoFile /\ ~unlinkOk
    THEN [r EXCEPT !.status = "threw", !.ret = "exception",
                   !.err = "unlinkSync", !.preFile = fs[r.dbFile]]
    ELSE Begin([r EXCEPT !.ret = ret, !.preFile = fs[r.dbFile],
                         !.openSaw = UnlinkFs(r.dbFile, discard, unlinkOk)[r.dbFile]],
               Call("initDatabase", NoHandle, r.dbFile, 0, 0))

\* startSelfCheck without the removal of the database file of the last run
StartSelfCheck_NoUnlink(i, passed, unlinkOk) ==
    LET options == DefaultParameter(passed,
                       Options(TRUE, "undefined", "undefined", "true"))
        dbFile == SqliteFile("self-check")
        r == [Unused EXCEPT !.mode = "selfCheck", !.passed = passed,
                            !.options = options, !.dbFile = dbFile]
    IN  /\ Alive
        /\ inv[i].mode = "none"
        /\ envLog' = Append(envLog, [level |-> "initStdout", by |-> i,
                                     msg |-> "none"])
        /\ console' = SayIf(Truthy(options.log), i, "Starting self-check")
        /\ fs' = UnlinkFs(dbFile, FALSE, unlinkOk)
        /\ inv' = [inv EXCEPT ![i] = UnlinkThenInit(r, FALSE, unlinkOk, "undefined")]
        /\ UNCHANGED <<disk, mainDatabase, quitCalls, serverUp, uiShown,
                       dockHidden, output, exitCode, creates, lastClear>>

\* function startSelfCheck(options = { log: true })
StartSelfCheck(i, passed, unlinkOk) ==
    LET options == DefaultParameter(passed,
                       Options(TRUE, "undefined", "undefined", "true"))
        dbFile == SqliteFile("self-check")
        r == [Unused EXCEPT !.mode = "selfCheck", !.passed = passed,
                            !.options = options, !.dbFile = dbFile]
    IN  /\ Alive
        /\ inv[i].mode = "none"
        /\ envLog' = Append(envLog, [level |-> "initStdout", by |-> i,
                                     msg |-> "none"])
        /\ console' = SayIf(Truthy(options.log), i, "Starting self-check")
        /\ fs' = UnlinkFs(dbFile, TRUE, unlinkOk)
        /\ inv' = [inv EXCEPT ![i] = UnlinkThenInit(r, TRUE, unlinkOk, "undefined")]
        /\ UNCHANGED <<disk, mainDatabase, quitCalls, serverUp, uiShown,
                       dockHidden, output, exitCode, creates, lastClear>>

\* function startGeneration(output, genTemplateJsonFile, zclProperties,
\*                          zapFile = null, options = {quit, cleanDb, log: true})
StartGeneration(i, zapFile, passed, unlinkOk) ==
    LET options == DefaultParameter(passed, Options(TRUE, "true", "true", "true"))
        dbFile == SqliteFile("generate")
        r == [Unused EXCEPT !.mode = "generation", !.passed = passed,
                            !.options = options, !.zapFile = zapFile,
                            !.dbFile = dbFile]
        c1 == SayIf(Truthy(options.log), i, "Generation information")
        c2 == IF ~Truthy(options.log) THEN c1
              ELSE IF zapFile # "null"
                   THEN Append(c1, [by |-> i, line |-> "using input file"])
                   ELSE Append(c1, [by |-> i, line |-> "using empty configuration"])
    IN  /\ Alive
        /\ inv[i].mode = "none"
        /\ console' = c2
        /\ fs' = UnlinkFs(dbFile, Truthy(options.cleanDb), unlinkOk)
        /\ inv' = [inv EXCEPT ![i] =
                     UnlinkThenInit(r, Truthy(options.cleanDb), unlinkOk, "promise")]
        /\ UNCHANGED <<disk, mainDatabase, envLog, quitCalls, serverUp, uiShown,
                       dockHidden, output, exitCode, creates, lastClear>>

\* function startSdkGeneration(generationDir, zclPropertiesFilePath,
\*                             options = {quit: true, cleanDb: true})
StartSdkGeneration(i, zclArg, passed, unlinkOk) ==
    LET options == DefaultParameter(passed,
                       Options(TRUE, "true", "true", "undefined"))
        dbFile == SqliteFile("sdk-regen")
        r == [Unused EXCEPT !.mode = "sdkGeneration", !.passed = passed,
                            !.options = options, !.zclArg = zclArg,
                            !.dbFile = dbFile]
    IN  /\ Alive
        /\ inv[i].mode = "none"
        /\ envLog' = Append(envLog, [level |-> "info", by |-> i,
                                     msg |-> "Start SDK generation..."])
        /\ fs' = UnlinkFs(dbFile, Truthy(options.cleanDb), unlinkOk)
        /\ inv' = [inv EXCEPT ![i] =
                     UnlinkThenInit(r, Truthy(options.cleanDb), unlinkOk, "promise")]
        /\ UNCHANGED <<disk, mainDatabase, console, quitCalls, serverUp, uiShown,
                       dockHidden, output, exitCode, creates, lastClear>>

----------------------------------------------------------------------------
(* The collaborators: how the call in progress settles *)

\* identifier of the package loaded from `path` in a database: a package is
\* loaded once per database, a new one gets the next identifier
PackageIdIn(d, path) ==
    IF \E k \in 1..Len(d.packages) : d.packages[k] = path
    THEN CHOOSE k \in 1..Len(d.packages) : d.packages[k] = path
    ELSE Len(d.packages) + 1

LoadPackage(d, path) ==
    IF \E k \in 1..Len(d.packages) : d.packages[k] = path
    THEN d
    ELSE [d EXCEPT !.packages = Append(@, path)]

\* the database file a call writes, after the call succeeded
DbAfter(d, c) ==
    CASE c.stage = "loadSchema" -> [d EXCEPT !.schema = TRUE]
      [] c.stage \in {"loadZcl", "loadTemplates"} -> LoadPackage(d, c.arg)
      [] c.stage = "createBlankSession" -> [d EXCEPT !.sessions = Append(@, {})]
      [] c.stage = "initializeSessionPackage" ->
             [d EXCEPT !.sessions[c.sessionId] = 1..Len(d.packages)]
      [] OTHER -> d

\* the value the promise of a call resolves with
Resolution(c, ino) ==
    CASE c.stage = "initDatabase" -> Val("db", Handle(ino, c.arg), 0, 0)
      [] c.stage \in {"resolveMainDatabase", "loadSchema"} -> Val("db", c.db, 0, 0)
      [] c.stage \in {"loadZcl", "loadTemplates"} ->
             Val("ctx", c.db, PackageIdIn(disk[c.db.ino], c.arg), 0)
      [] c.stage = "createBlankSession" ->
             Val("sessionId", NoHandle, 0, Len(disk[c.db.ino].sessions) + 1)
      [] c.stage = "initializeSessionPackage" ->
             Val("sessionId", NoHandle, 0, c.sessionId)
      [] OTHER -> Val("undefined", NoHandle, 0, 0)

\* the call in progress succeeds: its effect is committed, its promise resolves
StageSucceeds(i) ==
    LET r == inv[i]
        c == r.call
        creating == c.stage = "initDatabase" /\ fs[c.arg] = NoFile
        ino == IF c.stage = "initDatabase"
               THEN (IF creating THEN Len(disk) + 1 ELSE fs[c.arg])
               ELSE c.db.ino
    IN  /\ Alive
        /\ r.status = "pending"
        /\ fs' = IF creating THEN [fs EXCEPT ![c.arg] = ino] ELSE fs
        /\ disk' = IF creating THEN Append(disk, EmptyDb)
                   ELSE IF c.stage = "initDatabase" THEN disk
                   ELSE [disk EXCEPT ![ino] = DbAfter(@, c)]
        /\ mainDatabase' = IF c.stage = "resolveMainDatabase" THEN c.db
                           ELSE mainDatabase
        /\ serverUp' = (serverUp \/ c.stage = "initHttpServer")
        /\ output' = IF c.stage \in {"generateAndWriteFiles", "runSdkGeneration"}
                     THEN output \cup {[dir |-> c.arg, by |-> i, db |-> c.db,
                                        sessionId |-> c.sessionId,
                                        packageId |-> c.packageId]}
                     ELSE output
        /\ inv' = [inv EXCEPT ![i] =
                     [r EXCEPT !.status = "resolved", !.call = NoCall,
                               !.value = Resolution(c, ino),
                               !.done = Append(@, c.stage),
                               !.results = Append(@, Resolution(c, ino))]]
        /\ UNCHANGED <<envLog, console, quitCalls, uiShown, dockHidden, exitCode,
                       creates, lastClear>>

\* the call in progress fails: nothing is committed, its promise rejects.
\* env.resolveMainDatabase only stores the handle and cannot fail.
StageFails(i) ==
    /\ Alive
    /\ inv[i].status = "pending"
    /\ inv[i].call.stage # "resolveMainDatabase"
    /\ inv' = [inv EXCEPT ![i] =
                 [@ EXCEPT !.status = "rejected", !.err = inv[i].call.stage,
                           !.call = NoCall]]
    /\ UNCHANGED <<fs, disk, mainDatabase, envLog, console, quitCalls, serverUp,
                   uiShown, dockHidden, output, exitCode, creates, lastClear>>

----------------------------------------------------------------------------
(* The .then callbacks *)

\* a callback that only touches the invocation
OnlyInv ==
    UNCHANGED <<fs, disk, mainDatabase, envLog, console, quitCalls, serverUp,
                uiShown, dockHidden, output, exitCode, creates, lastClear>>

\* a callback that touches the invocation and the console
InvAndConsole ==
    UNCHANGED <<fs, disk, mainDatabase, envLog, quitCalls, serverUp, uiShown,
                dockHidden, output, exitCode, creates, lastClear>>

\* AtThen with callbacks that do not return the promise of the call they
\* make: the next callback runs while that call is still in progress
AtThen_NoReturn(i, mode, k) ==
    /\ Alive
    /\ inv[i].mode = mode
    /\ inv[i].status \in {"resolved", "pending"}
    /\ inv[i].pos = k

\* the callback at position k of the chain of a mode is the one to run
AtThen(i, mode, k) ==
    /\ Alive
    /\ inv[i].mode = mode
    /\ inv[i].status = "resolved"
    /\ inv[i].pos = k

\* .then((db) => env.resolveMainDatabase(db))
ThenResolveMainDatabase(i) ==
    inv' = [inv EXCEPT ![i] =
              Begin(@, Call("resolveMainDatabase", inv[i].value.db, "none", 0, 0))]

\* .then((db) => dbApi.loadSchema(db, env.schemaFile(), env.zapVersion()))
ThenLoadSchema(i) ==
    inv' = [inv EXCEPT ![i] =
              Begin(@, Call("loadSchema", inv[i].value.db, "schemaFile", 0, 0))]

\* .then((db) => zclLoader.loadZcl(db, file))
ThenLoadZcl(i, file) ==
    inv' = [inv EXCEPT ![i] =
              Begin(@, Call("loadZcl", inv[i].value.db, file, 0, 0))]

\* .then((ctx) => generatorEngine.loadTemplates(ctx.db, file))
ThenLoadTemplates(i, file) ==
    inv' = [inv EXCEPT ![i] =
              Begin(@, Call("loadTemplates", inv[i].value.db, file, 0, 0))]

\* app.quit()
AppQuit(i) == Append(quitCalls, i)

(* startNormal *)

Normal1(i) == AtThen(i, "normal", 1) /\ ThenResolveMainDatabase(i) /\ OnlyInv

Normal2(i) == AtThen(i, "normal", 2) /\ ThenLoadSchema(i) /\ OnlyInv

Normal3(i) ==
    AtThen(i, "normal", 3) /\ ThenLoadZcl(i, ZclPropertiesFile) /\ OnlyInv

Normal4(i) ==
    AtThen(i, "normal", 4) /\ ThenLoadTemplates(i, GenTemplateJsonFile) /\ OnlyInv

\* if (!args.noServer) return httpServer.initHttpServer(ctx.db, args.httpPort)
\* else return true
Normal5(i) ==
    /\ AtThen(i, "normal", 5)
    /\ inv' = [inv EXCEPT ![i] =
                 IF ~inv[i].noServer
                 THEN Begin(@, Call("initHttpServer", inv[i].value.db, "httpPort",
                                    0, 0))
                 ELSE Return(@, Val("true", NoHandle, 0, 0))]
    /\ OnlyInv

\* Normal6 printing the notice without the test of args.noServer
Normal6_NoServerTest(i, uiOk, hasDock) ==
    /\ AtThen(i, "normal", 6)
    /\ IF inv[i].uiEnabled
       THEN /\ uiShown' = (uiShown \/ uiOk)
            /\ inv' = [inv EXCEPT ![i] =
                         IF uiOk
                         THEN [Return(@, Val("undefined", NoHandle, 0, 0))
                                  EXCEPT !.began = Append(@, "initializeElectronUi"),
                                         !.done = Append(@, "initializeElectronUi")]
                         ELSE [@ EXCEPT !.status = "rejected", !.pos = @ + 1,
                                        !.err = "initializeElectronUi",
                                        !.began = Append(@, "initializeElectronUi")]]
            /\ UNCHANGED <<dockHidden, console>>
       ELSE /\ dockHidden' = (dockHidden \/ hasDock)
            /\ console' = SayIf(inv[i].showUrl, i, "url")
            /\ inv' = [inv EXCEPT ![i] = Return(@, Val("undefined", NoHandle, 0, 0))]
            /\ UNCHANGED uiShown
    /\ UNCHANGED <<fs, disk, mainDatabase, envLog, quitCalls, serverUp, output,
                   exitCode, creates, lastClear>>

\* the UI callback; windowJs.initializeElectronUi may throw (uiOk), the
\* platform may have no dock (hasDock)
Normal6(i, uiOk, hasDock) ==
    /\ AtThen(i, "normal", 6)
    /\ IF inv[i].uiEnabled
       THEN /\ uiShown' = (uiShown \/ uiOk)
            /\ inv' = [inv EXCEPT ![i] =
                         IF uiOk
                         THEN [Return(@, Val("undefined", NoHandle, 0, 0))
                                  EXCEPT !.began = Append(@, "initializeElectronUi"),
                                         !.done = Append(@, "initializeElectronUi")]
                         ELSE [@ EXCEPT !.status = "rejected", !.pos = @ + 1,
                                        !.err = "initializeElectronUi",
                                        !.began = Append(@, "initializeElectronUi")]]
            /\ UNCHANGED <<dockHidden, console>>
       ELSE /\ dockHidden' = (dockHidden \/ hasDock)
            /\ console' = SayIf(inv[i].showUrl /\ ~inv[i].noServer, i, "url")
            /\ inv' = [inv EXCEPT ![i] = Return(@, Val("undefined", NoHandle, 0, 0))]
            /\ UNCHANGED uiShown
    /\ UNCHANGED <<fs, disk, mainDatabase, envLog, quitCalls, serverUp, output,
                   exitCode, creates, lastClear>>

\* Normal7 with the test of args.noServer inverted
Normal7_Inverted(i) ==
    /\ AtThen(i, "normal", 7)
    /\ quitCalls' = IF ~inv[i].noServer THEN AppQuit(i) ELSE quitCalls
    /\ inv' = [inv EXCEPT ![i] = Fulfil(@)]
    /\ UNCHANGED <<fs, disk, mainDatabase, envLog, console, serverUp, uiShown,
                   dockHidden, output, exitCode, creates, lastClear>>

\* .then(() => { if (args.noServer) app.quit() })
Normal7(i) ==
    /\ AtThen(i, "normal", 7)
    /\ quitCalls' = IF inv[i].noServer THEN AppQuit(i) ELSE quitCalls
    /\ inv' = [inv EXCEPT ![i] = Fulfil(@)]
    /\ UNCHANGED <<fs, disk, mainDatabase, envLog, console, serverUp, uiShown,
                   dockHidden, output, exitCode, creates, lastClear>>

(* startSelfCheck *)

SelfCheck1(i) ==
    /\ AtThen(i, "selfCheck", 1)
    /\ console' = SayIf(Truthy(inv[i].options.log), i, "database initialized")
    /\ ThenResolveMainDatabase(i)
    /\ InvAndConsole

SelfCheck2(i) == AtThen(i, "selfCheck", 2) /\ ThenLoadSchema(i) /\ OnlyInv

\* SelfCheck3 without the test of options.log
SelfCheck3_AlwaysLog(i) ==
    /\ AtThen(i, "selfCheck", 3)
    /\ console' = Say(i, "schema initialized")
    /\ ThenLoadZcl(i, ZclPropertiesFile)
    /\ InvAndConsole

SelfCheck3(i) ==
    /\ AtThen(i, "selfCheck", 3)
    /\ console' = SayIf(Truthy(inv[i].options.log), i, "schema initialized")
    /\ ThenLoadZcl(i, ZclPropertiesFile)
    /\ InvAndConsole

SelfCheck4(i) ==
    /\ AtThen(i, "selfCheck", 4)
    /\ console' = SayIf(Truthy(inv[i].options.log), i, "zcl data loaded")
    /\ ThenLoadTemplates(i, GenTemplateJsonFile)
    /\ InvAndConsole

SelfCheck5(i) ==
    /\ AtThen(i, "selfCheck", 5)
    /\ console' = IF Truthy(inv[i].options.log)
                  THEN Append(Say(i, "generation templates loaded"),
                              [by |-> i, line |-> "Self-check done!"])
                  ELSE console
    /\ quitCalls' = AppQuit(i)
    /\ inv' = [inv EXCEPT ![i] = Fulfil(@)]
    /\ UNCHANGED <<fs, disk, mainDatabase, envLog, serverUp, uiShown, dockHidden,
                   output, exitCode, creates, lastClear>>

(* startGeneration *)

\* the output directory the caller supplies
OutputDir == "outputDir"

Generation1(i) ==
    AtThen(i, "generation", 1) /\ ThenResolveMainDatabase(i) /\ OnlyInv

Generation2(i) == AtThen(i, "generation", 2) /\ ThenLoadSchema(i) /\ OnlyInv

Generation3(i) ==
    AtThen(i, "generation", 3) /\ ThenLoadZcl(i, ZclPropertiesFile) /\ OnlyInv

Generation4(i) ==
    AtThen(i, "generation", 4) /\ ThenLoadTemplates(i, GenTemplateJsonFile)
                               /\ OnlyInv

\* Generation5 creating the session from the input file when one is given
Generation5_FromZapFile(i) ==
    /\ AtThen(i, "generation", 5)
    /\ inv' = [inv EXCEPT ![i] =
                 Begin([@ EXCEPT !.packageId = inv[i].value.packageId],
                       Call("createBlankSession", mainDatabase,
                            IF inv[i].zapFile # "null" THEN inv[i].zapFile
                            ELSE "none", 0, 0))]
    /\ OnlyInv

\* Generation5 without the assignment packageId = ctx.packageId
Generation5_NoCapture(i) ==
    /\ AtThen(i, "generation", 5)
    /\ inv' = [inv EXCEPT ![i] =
                 Begin(@, Call("createBlankSession", mainDatabase, "none", 0, 0))]
    /\ OnlyInv

\* packageId = ctx.packageId
\* return querySession.createBlankSession(env.mainDatabase())
Generation5(i) ==
    /\ AtThen(i, "generation", 5)
    /\ inv' = [inv EXCEPT ![i] =
                 Begin([@ EXCEPT !.packageId = inv[i].value.packageId],
                       Call("createBlankSession", mainDatabase, "none", 0, 0))]
    /\ OnlyInv

\* Generation6 passing the package identifier where the session identifier
\* belongs
Generation6_WrongId(i) ==
    /\ AtThen(i, "generation", 6)
    /\ inv' = [inv EXCEPT ![i] =
                 Begin(@, Call("initializeSessionPackage", mainDatabase, "none",
                               inv[i].packageId, 0))]
    /\ OnlyInv

\* util.initializeSessionPackage(env.mainDatabase(), sessionId)
Generation6(i) ==
    /\ AtThen(i, "generation", 6)
    /\ inv' = [inv EXCEPT ![i] =
                 Begin(@, Call("initializeSessionPackage", mainDatabase, "none",
                               inv[i].value.sessionId, 0))]
    /\ OnlyInv

\* generatorEngine.generateAndWriteFiles(env.mainDatabase(), sessionId,
\*                                       packageId, output, options.log)
Generation7(i) ==
    /\ AtThen(i, "generation", 7)
    /\ inv' = [inv EXCEPT ![i] =
                 Begin(@, Call("generateAndWriteFiles", mainDatabase, OutputDir,
                               inv[i].value.sessionId, inv[i].packageId))]
    /\ OnlyInv

\* QuitIfAsked without the test of options.quit
QuitIfAsked_Always(i) ==
    /\ quitCalls' = AppQuit(i)
    /\ inv' = [inv EXCEPT ![i] = Fulfil(@)]
    /\ UNCHANGED <<fs, disk, mainDatabase, envLog, console, serverUp, uiShown,
                   dockHidden, output, exitCode, creates, lastClear>>

\* .then(() => { if (options.quit) app.quit() })
QuitIfAsked(i) ==
    /\ quitCalls' = IF Truthy(inv[i].options.quit) THEN AppQuit(i) ELSE quitCalls
    /\ inv' = [inv EXCEPT ![i] = Fulfil(@)]
    /\ UNCHANGED <<fs, disk, mainDatabase, envLog, console, serverUp, uiShown,
                   dockHidden, output, exitCode, creates, lastClear>>

Generation8(i) == AtThen(i, "generation", 8) /\ QuitIfAsked(i)

(* startSdkGeneration *)

Sdk1(i) == AtThen(i, "sdkGeneration", 1) /\ ThenResolveMainDatabase(i) /\ OnlyInv

Sdk2(i) == AtThen(i, "sdkGeneration", 2) /\ ThenLoadSchema(i) /\ OnlyInv

\* zclPropertiesFilePath ? zclPropertiesFilePath : args.zclPropertiesFile
Sdk3(i) ==
    /\ AtThen(i, "sdkGeneration", 3)
    /\ ThenLoadZcl(i, IF inv[i].zclArg # "undefined" THEN inv[i].zclArg
                      ELSE ZclPropertiesFile)
    /\ OnlyInv

\* sdkGen.runSdkGeneration({ db: ctx.db, generationDir: generationDir })
Sdk4(i) ==
    /\ AtThen(i, "sdkGeneration", 4)
    /\ inv' = [inv EXCEPT ![i] =
                 Begin(@, Call("runSdkGeneration", inv[i].value.db, OutputDir,
                               0, 0))]
    /\ OnlyInv

Sdk5(i) == AtThen(i, "sdkGeneration", 5) /\ QuitIfAsked(i)

----------------------------------------------------------------------------
(* The .catch callbacks *)

\* .catch((err) => { env.logError(err); throw err })
Catch(i) ==
    /\ Alive
    /\ inv[i].status = "rejected"
    /\ envLog' = Append(envLog, [level |-> "error", by |-> i, msg |-> inv[i].err])
    /\ inv' = [inv EXCEPT ![i] = [@ EXCEPT !.status = "failed"]]
    /\ UNCHANGED <<fs, disk, mainDatabase, console, quitCalls, serverUp, uiShown,
                   dockHidden, output, exitCode, creates, lastClear>>

NormalCatch(i) == inv[i].mode = "normal" /\ Catch(i)

SelfCheckCatch(i) == inv[i].mode = "selfCheck" /\ Catch(i)

GenerationCatch(i) == inv[i].mode = "generation" /\ Catch(i)

SdkCatch(i) == inv[i].mode = "sdkGeneration" /\ Catch(i)

----------------------------------------------------------------------------
(* The caller of the entry points and the runtime *)

OnlyExit ==
    UNCHANGED <<fs, disk, mainDatabase, envLog, console, quitCalls, serverUp,
                uiShown, dockHidden, output, creates, lastClear>>

\* the caller holds a failure (an exception, or the rejection of the promise
\* it was returned) and terminates the process with a failure disposition
CallerTerminates(i) ==
    /\ Alive
    /\ \/ inv[i].ret = "exception"
       \/ inv[i].ret = "promise" /\ inv[i].status = "failed"
    /\ exitCode' = "nonzero"
    /\ UNCHANGED inv
    /\ OnlyExit

\* a rejected promise nobody holds: the runtime reports the unhandled
\* rejection; whether that ends the process is up to the runtime
UnhandledRejection(i, fatal) ==
    /\ Alive
    /\ inv[i].ret = "undefined"
    /\ inv[i].status = "failed"
    /\ ~inv[i].reported
    /\ inv' = [inv EXCEPT ![i] = [@ EXCEPT !.reported = TRUE]]
    /\ exitCode' = IF fatal THEN "nonzero" ELSE exitCode
    /\ OnlyExit

\* app.quit() was requested: the application closes and the process ends
ProcessQuits ==
    /\ Alive
    /\ quitCalls # <<>>
    /\ exitCode' = "zero"
    /\ UNCHANGED inv
    /\ OnlyExit

----------------------------------------------------------------------------
(* Maintenance *)

\* ClearedFs with the old backup deleted before the live file is looked for
ClearedFs_BackupFirst(unlinkOk, renameOk) ==
    LET path == SqliteFile("zap")
        pathBak == BackupOf(path)
    IN  IF fs[pathBak] # NoFile /\ ~unlinkOk THEN fs
        ELSE IF fs[path] = NoFile THEN [fs EXCEPT ![pathBak] = NoFile]
        ELSE IF ~renameOk THEN [fs EXCEPT ![pathBak] = NoFile]
        ELSE [fs EXCEPT ![pathBak] = fs[path], ![path] = NoFile]

\* ClearedFs with a live file deleted, not renamed, when an old backup exists
ClearedFs_KeepsOldBackup(unlinkOk, renameOk) ==
    LET path == SqliteFile("zap")
        pathBak == BackupOf(path)
    IN  IF fs[path] = NoFile THEN fs
        ELSE IF fs[pathBak] # NoFile /\ ~unlinkOk THEN fs
        ELSE IF ~renameOk THEN [fs EXCEPT ![pathBak] = NoFile]
        ELSE IF fs[pathBak] # NoFile THEN [fs EXCEPT ![path] = NoFile]
        ELSE [fs EXCEPT ![pathBak] = fs[path], ![path] = NoFile]

\* ClearedFs with a failing rename that has already removed the live name
ClearedFs_RenameLoses(unlinkOk, renameOk) ==
    LET path == SqliteFile("zap")
        pathBak == BackupOf(path)
    IN  IF fs[path] = NoFile THEN fs
        ELSE IF fs[pathBak] # NoFile /\ ~unlinkOk THEN fs
        ELSE IF ~renameOk THEN [fs EXCEPT ![pathBak] = NoFile, ![path] = NoFile]
        ELSE [fs EXCEPT ![pathBak] = fs[path], ![path] = NoFile]

\* function clearDatabaseFile(): the directory afterwards.  unlinkOk and
\* renameOk are the outcomes of fs.unlinkSync and fs.renameSync.
ClearedFs(unlinkOk, renameOk) ==
    LET path == SqliteFile("zap")
        pathBak == BackupOf(path)
    IN  IF fs[path] = NoFile THEN fs
        ELSE IF fs[pathBak] # NoFile /\ ~unlinkOk THEN fs
        ELSE IF ~renameOk THEN [fs EXCEPT ![pathBak] = NoFile]
        ELSE [fs EXCEPT ![pathBak] = fs[path], ![path] = NoFile]

\* the steps the call takes, warnings included, up to the one that throws
ClearSteps(unlinkOk, renameOk) ==
    LET path == SqliteFile("zap")
        pathBak == BackupOf(path)
        s1 == IF fs[pathBak] # NoFile
              THEN <<"logWarning: deleting old backup",
                     IF unlinkOk THEN "unlinkSync" ELSE "unlinkSync throws">>
              ELSE <<>>
        s2 == <<"logWarning: moving file",
                IF renameOk THEN "renameSync" ELSE "renameSync throws">>
    IN  IF fs[path] = NoFile THEN <<>>
        ELSE IF fs[pathBak] # NoFile /\ ~unlinkOk THEN s1
        ELSE s1 \o s2

ClearDatabaseFile(unlinkOk, renameOk) ==
    /\ Alive
    /\ fs' = ClearedFs(unlinkOk, renameOk)
    /\ lastClear' = ClearSteps(unlinkOk, renameOk)
    /\ UNCHANGED <<disk, mainDatabase, inv, envLog, console, quitCalls, serverUp,
                   uiShown, dockHidden, output, exitCode, creates>>

\* another run of the application leaves a database file at the live path
CreateLiveFile ==
    /\ Alive
    /\ creates < MaxCreates
    /\ fs[SqliteFile("zap")] = NoFile
    /\ disk' = Append(disk, PriorDb)
    /\ fs' = [fs EXCEPT ![SqliteFile("zap")] = Len(disk) + 1]
    /\ creates' = creates + 1
    /\ UNCHANGED <<mainDatabase, inv, envLog, console, quitCalls, serverUp,
                   uiShown, dockHidden, output, exitCode, lastClear>>

----------------------------------------------------------------------------
(* One entry point is called in the life of the process *)

Start(i) ==
    \/ \E u \in BOOLEAN, s \in BOOLEAN, n \in BOOLEAN : StartNormal(i, u, s, n)
    \/ \E o \in PassedOptions, ok \in BOOLEAN : StartSelfCheck(i, o, ok)
    \/ \E z \in {"null", "app.zap"}, o \in PassedOptions, ok \in BOOLEAN :
          StartGeneration(i, z, o, ok)
    \/ \E z \in {"undefined", "custom.properties"}, o \in PassedOptions,
          ok \in BOOLEAN : StartSdkGeneration(i, z, o, ok)

NormalChain(i) ==
    \/ Normal1(i) \/ Normal2(i) \/ Normal3(i) \/ Normal4(i) \/ Normal5(i)
    \/ \E uiOk \in BOOLEAN, hasDock \in BOOLEAN : Normal6(i, uiOk, hasDock)
    \/ Normal7(i)
    \/ NormalCatch(i)

SelfCheckChain(i) ==
    \/ SelfCheck1(i) \/ SelfCheck2(i) \/ SelfCheck3(i) \/ SelfCheck4(i)
    \/ SelfCheck5(i)
    \/ SelfCheckCatch(i)

GenerationChain(i) ==
    \/ Generation1(i) \/ Generation2(i) \/ Generation3(i) \/ Generation4(i)
    \/ Generation5(i) \/ Generation6(i) \/ Generation7(i) \/ Generation8(i)
    \/ GenerationCatch(i)

SdkChain(i) ==
    \/ Sdk1(i) \/ Sdk2(i) \/ Sdk3(i) \/ Sdk4(i) \/ Sdk5(i)
    \/ SdkCatch(i)

Then(i) ==
    NormalChain(i) \/ SelfCheckChain(i) \/ GenerationChain(i) \/ SdkChain(i)

\* the collaborators settle the call in progress
Settle ==
    \/ \E i \in Invs : StageSucceeds(i)
    \/ \E i \in Invs : StageFails(i)

Next ==
    \/ Started = {} /\ Start(1)
    \/ \E i \in Invs : Then(i)
    \/ Settle
    \/ \E i \in Invs : CallerTerminates(i)
    \/ \E i \in Invs, fatal \in BOOLEAN : UnhandledRejection(i, fatal)
    \/ ProcessQuits

Spec == Init /\ [][Next]_vars

----------------------------------------------------------------------------
(* startNormal with the maintenance operation at any time *)

NextMaintenance ==
    \/ Started = {} /\ \E u \in BOOLEAN, s \in BOOLEAN, n \in BOOLEAN :
                          StartNormal(1, u, s, n)
    \/ \E i \in Invs : NormalChain(i)
    \/ Settle
    \/ \E i \in Invs, fatal \in BOOLEAN : UnhandledRejection(i, fatal)
    \/ ProcessQuits
    \/ \E unlinkOk \in BOOLEAN, renameOk \in BOOLEAN :
          ClearDatabaseFile(unlinkOk, renameOk)
    \/ CreateLiveFile

\* the database files of the other modes play no part
InitMaintenance ==
    /\ Init
    /\ \A p \in Paths \ {SqliteFile("zap"), BackupOf(SqliteFile("zap"))} :
          fs[p] = NoFile

SpecMaintenance == InitMaintenance /\ [][NextMaintenance]_vars

----------------------------------------------------------------------------
(* Vocabulary of the properties *)

IsPrefix(s, t) == Len(s) <= Len(t) /\ \A k \in 1..Len(s) : s[k] = t[k]

\* the fixed order of the stages of a mode, for the configuration of a run
ModeOrder(r) ==
    LET load == <<"initDatabase", "resolveMainDatabase", "loadSchema", "loadZcl">>
    IN  CASE r.mode = "normal" ->
               load \o <<"loadTemplates">>
                    \o (IF r.noServer THEN <<>> ELSE <<"initHttpServer">>)
                    \o (IF r.uiEnabled THEN <<"initializeElectronUi">> ELSE <<>>)
          [] r.mode = "selfCheck" -> load \o <<"loadTemplates">>
          [] r.mode = "generation" ->
               load \o <<"loadTemplates", "createBlankSession",
                         "initializeSessionPackage", "generateAndWriteFiles">>
          [] r.mode = "sdkGeneration" -> load \o <<"runSdkGeneration">>
          [] OTHER -> <<>>

\* number of env.logError records of an invocation
ErrorsLogged(i) ==
    Cardinality({k \in 1..Len(envLog) :
                    envLog[k].level = "error" /\ envLog[k].by = i})

\* number of app.quit() calls of an invocation
Quits(i) == Cardinality({k \in 1..Len(quitCalls) : quitCalls[k] = i})

\* number of sessions in the database files 1..k
RECURSIVE SessionCount(_, _)
SessionCount(d, k) ==
    IF k = 0 THEN 0 ELSE Len(d[k].sessions) + SessionCount(d, k - 1)

\* number of sessions created since the process started
SessionsCreated ==
    SessionCount(disk, Len(disk)) - SessionCount(InitialDisk, Len(InitialDisk))

\* files the generators wrote for an invocation
OutputOf(i) == {o \in output : o.by = i}

\* the invocation failed and its chain has settled
Failed(i) == inv[i].status \in {"failed", "threw"}

\* every stage of the mode completed
AllStagesDone(i) == inv[i].done = ModeOrder(inv[i])

----------------------------------------------------------------------------
\* C1: in every mode the stages begin in the mode's fixed order, a stage
\* begins only after the stage before it completed successfully, at most one
\* stage is in progress, and a stage's side effect (output files, the
\* serving interface, the UI) is there only if all stages before it completed.
C1_StagesInOrder ==
    \A i \in Invs :
        LET r == inv[i] IN
        /\ IsPrefix(r.began, ModeOrder(r))
        /\ IsPrefix(r.done, r.began)
        /\ Len(r.began) - Len(r.done) <= 1
        /\ (r.status = "pending") =>
               /\ Len(r.began) = Len(r.done) + 1
               /\ r.call.stage = r.began[Len(r.began)]
        /\ OutputOf(i) # {} => AllStagesDone(i)
        /\ (r.mode = "normal" /\ serverUp) =>
               IsPrefix(SubSeq(ModeOrder(r), 1, 6), r.done)
        /\ (r.mode = "normal" /\ uiShown) => AllStagesDone(i)

\* a generation run with its sixth stage in progress
C1_Witness ==
    \E i \in Invs :
        /\ inv[i].mode = "generation"
        /\ inv[i].status = "pending"
        /\ inv[i].call.stage = "createBlankSession"
        /\ Len(inv[i].done) = 5

----------------------------------------------------------------------------
\* the stages an invocation began, when its failure is the one recorded in err
BeganAtFailure(r) ==
    IF r.err = "unlinkSync" THEN <<>> ELSE Append(r.done, r.err)

\* C2: once a stage of an invocation failed no later stage is started: the
\* stages begun stay the completed ones and the failed one; in headless
\* generation a failure before session creation leaves no session created
\* and no output file, a failure in session creation or binding leaves no
\* output file, and after a failed ensure-fresh deletion no stage begins.
C2_FailFast ==
    \A i \in Invs :
        LET r == inv[i] IN
        r.err # "none" =>
            /\ r.began = BeganAtFailure(r)
            /\ r.status \in {"rejected", "failed", "threw"}
            /\ r.err = "unlinkSync" =>
                   /\ mainDatabase = NoHandle
                   /\ SessionsCreated = 0
                   /\ output = {}
            /\ (r.mode = "generation" /\ r.err \in
                  {"initDatabase", "loadSchema", "loadZcl", "loadTemplates"}) =>
                   /\ SessionsCreated = 0
                   /\ OutputOf(i) = {}
            /\ (r.mode = "generation" /\ r.err \in
                  {"createBlankSession", "initializeSessionPackage"}) =>
                   OutputOf(i) = {}

\* a generation run whose template load failed, after the failure was logged
C2_Witness ==
    \E i \in Invs :
        /\ inv[i].mode = "generation"
        /\ inv[i].status = "failed"
        /\ inv[i].err = "loadTemplates"

\* C3 as stated: every failure of an invocation is recorded by env.logError
\* exactly once, at whichever step it occurs, the ensure-fresh deletion
\* included.
C3_LoggedExactlyOnce ==
    \A i \in Invs :
        /\ ErrorsLogged(i) <= 1
        /\ Failed(i) => ErrorsLogged(i) = 1

\* C4 as stated: in every mode the caller of the entry point receives the
\* failure of a failed run, after it was logged.
C4_CallerReceivesFailure ==
    \A i \in Invs :
        Failed(i) =>
            /\ inv[i].ret \in {"promise", "exception"}
            /\ ErrorsLogged(i) = 1

\* nothing more will happen to a failed invocation: its failure reached the
\* caller or the runtime and they have acted on it, or could not
FailureHandled(i) ==
    /\ Failed(i)
    /\ ~ENABLED CallerTerminates(i)
    /\ ~ENABLED UnhandledRejection(i, TRUE)

\* C5 as stated: a failed invocation ends the process with a failure
\* disposition, after env.logError recorded the error, and never leaves the
\* process resident.
C5_FailureEndsProcess ==
    \A i \in Invs :
        /\ (Failed(i) /\ exitCode = "nonzero") => ErrorsLogged(i) = 1
        /\ FailureHandled(i) => exitCode = "nonzero"

----------------------------------------------------------------------------
\* C6: in startGeneration and startSdkGeneration, with cleanDb true and a
\* file at the database path, the file is gone when initDatabase is called
\* and stays gone while the open is in progress; with cleanDb false the file
\* found there is still there when initDatabase is called, is never replaced,
\* and is the file of the handle the run works with.
C6_FreshStart ==
    \A i \in Invs :
        LET r == inv[i] IN
        (r.mode \in {"generation", "sdkGeneration"} /\ r.began # <<>>) =>
            /\ (r.options.cleanDb = "true" /\ r.preFile # NoFile) =>
                   /\ r.openSaw = NoFile
                   /\ r.done = <<>> => fs[r.dbFile] = NoFile
                   /\ fs[r.dbFile] # r.preFile
            /\ (r.options.cleanDb = "false" /\ r.preFile # NoFile) =>
                   /\ r.openSaw = r.preFile
                   /\ fs[r.dbFile] = r.preFile
                   /\ (r.status = "resolved" /\ r.value.kind \in {"db", "ctx"}) =>
                          r.value.db = Handle(r.preFile, r.dbFile)
                   /\ mainDatabase # NoHandle =>
                          mainDatabase = Handle(r.preFile, r.dbFile)

\* a generation run that deleted the file it found and has opened a new one
C6_Witness ==
    \E i \in Invs :
        /\ inv[i].mode = "generation"
        /\ inv[i].options.cleanDb = "true"
        /\ inv[i].preFile # NoFile
        /\ inv[i].done = <<"initDatabase">>
        /\ fs[inv[i].dbFile] \notin {NoFile, inv[i].preFile}

\* C7: after a successful run, startGeneration and startSdkGeneration call
\* app.quit() when the quit flag of their options is true and do not call it
\* when it is false, startSelfCheck calls it when the quit flag passed is
\* true; each calls it at most once and only after its last stage completed.
C7_QuitOnSuccess ==
    \A i \in Invs :
        LET r == inv[i] IN
        r.mode \in {"generation", "sdkGeneration", "selfCheck"} =>
            /\ Quits(i) <= 1
            /\ Quits(i) = 1 => AllStagesDone(i) /\ r.status = "fulfilled"
            /\ (r.status = "fulfilled" /\ r.options.quit = "true") => Quits(i) = 1
            /\ (r.status = "fulfilled" /\ r.options.quit = "false"
                  /\ r.mode # "selfCheck") => Quits(i) = 0

\* a generation run that succeeded with quit false
C7_Witness ==
    \E i \in Invs :
        /\ inv[i].mode = "generation"
        /\ inv[i].status = "fulfilled"
        /\ inv[i].options.quit = "false"
        /\ OutputOf(i) # {}

\* C8 as stated: a flag of startGeneration's options the caller does not
\* specify behaves as true, also when the caller passes an options object
\* that sets only some of the flags.
C8_DefaultsTrue ==
    \A i \in Invs :
        LET r == inv[i] IN
        (r.mode = "generation" /\ r.status = "fulfilled") =>
            /\ r.passed.quit = "undefined" => Quits(i) = 1
            /\ r.passed.log = "undefined" =>
                   \E k \in 1..Len(console) :
                       console[k] = [by |-> i, line |-> "Generation information"]
            /\ (r.passed.cleanDb = "undefined" /\ r.preFile # NoFile) =>
                   r.openSaw = NoFile

\* C9: after a successful startNormal, app.quit() was called if and only if
\* args.noServer is set; otherwise it is never called, the process stays
\* resident, the serving interface is up, and the UI is shown if enabled.
C9_NormalQuitsIffNoServer ==
    \A i \in Invs :
        LET r == inv[i] IN
        r.mode = "normal" =>
            /\ Quits(i) >= 1 => r.noServer /\ r.status = "fulfilled"
            /\ r.status = "fulfilled" =>
                   /\ r.noServer <=> Quits(i) = 1
                   /\ ~r.noServer =>
                          /\ exitCode = "resident"
                          /\ serverUp
                          /\ r.uiEnabled => uiShown

\* a normal run with a serving interface and no UI that settled successfully
C9_Witness ==
    \E i \in Invs :
        /\ inv[i].mode = "normal"
        /\ inv[i].status = "fulfilled"
        /\ ~inv[i].noServer
        /\ ~inv[i].uiEnabled
        /\ serverUp

\* a call of clearDatabaseFile threw
Threw(steps) ==
    /\ steps # <<>>
    /\ steps[Len(steps)] \in {"unlinkSync throws", "renameSync throws"}

\* C10: a call of clearDatabaseFile that finds a live file and does not
\* throw leaves no file at the live path and the file that was there, with
\* its content, at the backup path; a call that finds no live file, such as
\* the second of two calls in a row, changes nothing.
C10_ClearTwice ==
    [][ \A unlinkOk \in BOOLEAN, renameOk \in BOOLEAN :
          (ClearDatabaseFile(unlinkOk, renameOk) /\ ~Threw(lastClear')) =>
              /\ disk' = disk
              /\ IF fs[SqliteFile("zap")] # NoFile
                 THEN /\ fs'[SqliteFile("zap")] = NoFile
                      /\ fs'[BackupOf(SqliteFile("zap"))] = fs[SqliteFile("zap")]
                 ELSE fs' = fs ]_vars

\* the live file the process started with is the backup, no file is at the
\* live path, and the most recent call found no live file
C10_Witness ==
    /\ lastClear = <<>>
    /\ creates = 0
    /\ fs[SqliteFile("zap")] = NoFile
    /\ fs[BackupOf(SqliteFile("zap"))] = PreIno(SqliteFile("zap"))

----------------------------------------------------------------------------
(* startGeneration with a second invocation, on another database file, *)
(* in flight at the same time                                           *)

\* the options the interleaved invocations are called with
FewOptions == {Omitted, Options(TRUE, "false", "false", "false")}

\* the live database file and its backup play no part
InitConcurrent ==
    /\ Init
    /\ fs[SqliteFile("zap")] = NoFile
    /\ fs[BackupOf(SqliteFile("zap"))] = NoFile

NextConcurrent ==
    \/ \E o \in FewOptions, ok \in BOOLEAN : StartGeneration(1, "null", o, ok)
    \/ \E o \in FewOptions, ok \in BOOLEAN :
          StartSdkGeneration(2, "undefined", o, ok)
    \/ \E o \in FewOptions, ok \in BOOLEAN : StartSelfCheck(2, o, ok)
    \/ \E i \in Invs : GenerationChain(i)
    \/ \E i \in Invs : SdkChain(i)
    \/ \E i \in Invs : SelfCheckChain(i)
    \/ Settle
    \/ \E i \in Invs : CallerTerminates(i)
    \/ \E i \in Invs, fatal \in BOOLEAN : UnhandledRejection(i, fatal)
    \/ ProcessQuits

SpecConcurrent == InitConcurrent /\ [][NextConcurrent]_vars

\* C11 as stated: every stage of an invocation works on the handle that
\* invocation opened, also when an invocation on another database file
\* interleaves: the handle of every call in progress, and of every file
\* written, is the one opened from the invocation's own database file.
C11_OwnHandle ==
    /\ \A i \in Invs :
          (inv[i].status = "pending" /\ inv[i].call.stage # "initDatabase") =>
              inv[i].call.db.path = inv[i].dbFile
    /\ \A o \in output : o.db.path = inv[o.by].dbFile

----------------------------------------------------------------------------
\* the value the k-th stage of an invocation resolved with
ResultOf(i, k) == inv[i].results[k]

\* the sessions the invocation's database file holds that have packages bound
BoundSessions(i) ==
    IF fs[inv[i].dbFile] = NoFile THEN {}
    ELSE {k \in 1..Len(disk[fs[inv[i].dbFile]].sessions) :
             disk[fs[inv[i].dbFile]].sessions[k] # {}}

\* C12: in startGeneration, initializeSessionPackage is called only after
\* createBlankSession completed and returned a session identifier, with that
\* identifier; generateAndWriteFiles is called with, and writes for, the same
\* identifier; and the session has packages bound only once binding completed.
C12_SessionBeforeBinding ==
    \A i \in Invs :
        LET r == inv[i] IN
        r.mode = "generation" =>
            /\ (r.status = "pending" /\ r.call.stage \in
                  {"initializeSessionPackage", "generateAndWriteFiles"}) =>
                   /\ Len(r.done) >= 6
                   /\ r.done[6] = "createBlankSession"
                   /\ ResultOf(i, 6).kind = "sessionId"
                   /\ ResultOf(i, 6).sessionId >= 1
                   /\ r.call.sessionId = ResultOf(i, 6).sessionId
            /\ \A o \in OutputOf(i) : o.sessionId = ResultOf(i, 6).sessionId
            /\ (Len(r.done) >= 6 /\ r.done[6] = "createBlankSession"
                  /\ ResultOf(i, 6).sessionId \in BoundSessions(i)) =>
                   /\ Len(r.done) >= 7
                   /\ r.done[7] = "initializeSessionPackage"

\* a generation run that wrote its files for the session it created
C12_Witness ==
    \E i \in Invs :
        /\ inv[i].mode = "generation"
        /\ Len(inv[i].done) = 8
        /\ \E o \in OutputOf(i) : o.sessionId = ResultOf(i, 6).sessionId
        /\ ResultOf(i, 6).sessionId \in BoundSessions(i)

----------------------------------------------------------------------------
\* C15: the package identifier startGeneration passes to
\* generateAndWriteFiles, and the files are written for, is the one the
\* template load of this invocation returned, not the one the metadata load
\* returned; it is captured when the template load resolved and not changed
\* by session creation and package binding.
C15_TemplatePackageId ==
    \A i \in Invs :
        LET r == inv[i] IN
        r.mode = "generation" =>
            /\ (Len(r.began) >= 6 /\ r.began[6] = "createBlankSession") =>
                   /\ ResultOf(i, 5).kind = "ctx"
                   /\ r.done[5] = "loadTemplates"
                   /\ r.packageId = ResultOf(i, 5).packageId
                   /\ r.packageId # ResultOf(i, 4).packageId
            /\ (r.status = "pending" /\ r.call.stage = "generateAndWriteFiles") =>
                   r.call.packageId = ResultOf(i, 5).packageId
            /\ \A o \in OutputOf(i) : o.packageId = ResultOf(i, 5).packageId

\* a generation run that wrote its files for the template package it loaded
C15_Witness ==
    \E i \in Invs :
        /\ inv[i].mode = "generation"
        /\ Len(inv[i].done) = 8
        /\ inv[i].done[8] = "generateAndWriteFiles"
        /\ \E o \in OutputOf(i) :
              /\ o.packageId = ResultOf(i, 5).packageId
              /\ o.packageId # ResultOf(i, 4).packageId

----------------------------------------------------------------------------
(* startSelfCheck twice in succession *)

\* only the self-check database file plays a part
InitSelfCheckTwice ==
    /\ Init
    /\ \A p \in Paths \ {SqliteFile("self-check")} : fs[p] = NoFile

\* the chain of an invocation has settled
Settled(i) == inv[i].status \in {"fulfilled", "failed", "threw"}

NextSelfCheckTwice ==
    \/ \E o \in FewOptions, ok \in BOOLEAN : StartSelfCheck(1, o, ok)
    \/ Settled(1) /\ \E o \in FewOptions, ok \in BOOLEAN : StartSelfCheck(2, o, ok)
    \/ \E i \in Invs : SelfCheckChain(i)
    \/ Settle
    \/ \E i \in Invs, fatal \in BOOLEAN : UnhandledRejection(i, fatal)
    \/ ProcessQuits

SpecSelfCheckTwice == InitSelfCheckTwice /\ [][NextSelfCheckTwice]_vars

\* the content of the database file of a self-check run after its first k
\* stages, when the file was created by the run
SelfCheckDb(k) ==
    [schema |-> k >= 3,
     packages |-> IF k >= 5 THEN <<ZclPropertiesFile, GenTemplateJsonFile>>
                  ELSE IF k >= 4 THEN <<ZclPropertiesFile>> ELSE <<>>,
     sessions |-> <<>>]

\* C14: of two self-check runs in succession the second finds no database
\* file when it opens, whatever the first left: it works on a file created
\* for it, whose content is what its own completed stages wrote, and it
\* leaves the file of the first run as the first run left it; both runs
\* succeed when their stages do.
C14_SelfCheckTwice ==
    (inv[1].mode = "selfCheck" /\ inv[2].mode = "selfCheck"
       /\ inv[2].began # <<>>) =>
        /\ inv[2].openSaw = NoFile
        /\ Len(inv[2].done) >= 1 =>
               LET mine == ResultOf(2, 1).db.ino
               IN  /\ mine # inv[2].preFile
                   /\ mine = fs[inv[2].dbFile]
                   /\ disk[mine] = SelfCheckDb(Len(inv[2].done))
                   /\ Len(inv[1].done) >= 1 =>
                          /\ mine # ResultOf(1, 1).db.ino
                          /\ disk[ResultOf(1, 1).db.ino] =
                                 SelfCheckDb(Len(inv[1].done))
        /\ Len(inv[2].done) = 5 => inv[2].status \in {"resolved", "fulfilled"}
        /\ inv[2].status = "fulfilled" => Len(inv[2].done) = 5

\* both runs succeeded, the second on another file than the first
C14_Witness ==
    /\ inv[1].status = "fulfilled"
    /\ inv[2].status = "fulfilled"
    /\ inv[2].mode = "selfCheck"
    /\ inv[2].preFile = ResultOf(1, 1).db.ino
    /\ fs[inv[2].dbFile] # inv[2].preFile

----------------------------------------------------------------------------
\* the console.log lines of an invocation, in order
RECURSIVE LinesFrom(_, _)
LinesFrom(i, k) ==
    IF k > Len(console) THEN <<>>
    ELSE IF console[k].by = i THEN <<console[k].line>> \o LinesFrom(i, k + 1)
    ELSE LinesFrom(i, k + 1)

LinesOf(i) == LinesFrom(i, 1)

\* the lines a self-check run with logging has printed when it has begun n
\* stages and, if fulfilled, has settled
SelfCheckLines(n, fulfilled) ==
    <<"Starting self-check">>
      \o (IF n >= 2 THEN <<"database initialized">> ELSE <<>>)
      \o (IF n >= 4 THEN <<"schema initialized">> ELSE <<>>)
      \o (IF n >= 5 THEN <<"zcl data loaded">> ELSE <<>>)
      \o (IF fulfilled THEN <<"generation templates loaded", "Self-check done!">>
          ELSE <<>>)

\* C16: a self-check run with logging prints the progress line of a stage
\* once, after the stage completed and with the start of the next one, in
\* stage order, and the lines of the last stage and of the end only when all
\* stages completed; without logging it prints nothing.
C16_ProgressLines ==
    \A i \in Invs :
        LET r == inv[i] IN
        r.mode = "selfCheck" =>
            /\ Truthy(r.options.log) =>
                   LinesOf(i) = SelfCheckLines(Len(r.began), r.status = "fulfilled")
            /\ ~Truthy(r.options.log) => LinesOf(i) = <<>>
            /\ Len(r.began) >= 2 => r.done[1] = "initDatabase"
            /\ Len(r.began) >= 4 => r.done[3] = "loadSchema"
            /\ Len(r.began) >= 5 => r.done[4] = "loadZcl"
            /\ r.status = "fulfilled" => r.done[5] = "loadTemplates"

\* a self-check run with logging whose schema load failed after the database
\* was opened
C16_Witness ==
    \E i \in Invs :
        /\ inv[i].mode = "selfCheck"
        /\ inv[i].err = "loadSchema"
        /\ LinesOf(i) = <<"Starting self-check", "database initialized">>

----------------------------------------------------------------------------
\* the UI callback, the sixth of a normal-mode invocation, has run (pos also
\* counts the call of initDatabase)
UiCallbackRan(i) == inv[i].mode = "normal" /\ inv[i].pos >= 7

NoticePrinted(i) == \E k \in 1..Len(console) :
                        console[k].by = i /\ console[k].line = "url"

\* the statement of C17 as written: without the UI the notice is printed
\* whenever showUrl is set, also when the run has no server and quits
C17_NoticeAsClaimed ==
    \A i \in Invs :
        UiCallbackRan(i) =>
            /\ (~inv[i].uiEnabled /\ inv[i].showUrl) => NoticePrinted(i)
            /\ inv[i].uiEnabled => ~NoticePrinted(i)

\* C17: in normal mode the landing-page notice is printed, once and by the
\* UI callback, exactly when the UI is not enabled, showUrl is set and the
\* run has a server; a run without server that quits has printed no notice,
\* and no notice is printed when the UI is enabled.
C17_Notice ==
    \A i \in Invs :
        inv[i].mode = "normal" =>
            /\ LinesOf(i) = IF /\ UiCallbackRan(i)
                               /\ ~inv[i].uiEnabled
                               /\ inv[i].showUrl
                               /\ ~inv[i].noServer
                            THEN <<"url">> ELSE <<>>
            /\ Quits(i) > 0 => ~NoticePrinted(i)

\* a run without UI and without server, with showUrl, has quit
C17_Witness ==
    \E i \in Invs :
        /\ inv[i].mode = "normal" /\ inv[i].status = "fulfilled"
        /\ ~inv[i].uiEnabled /\ inv[i].showUrl /\ inv[i].noServer
        /\ Quits(i) = 1

----------------------------------------------------------------------------
\* the step is among the steps of a call of clearDatabaseFile
Took(steps, step) == \E k \in 1..Len(steps) : steps[k] = step

\* C18: a call of clearDatabaseFile that throws, at the deletion of the old
\* backup or at the rename, leaves the live file at the live path with its
\* content; the rename is attempted only when a live file was found and the
\* backup path was found empty or was emptied; and the file found at the live
\* path is afterwards at the live path or at the backup path.
C18_FailingClear ==
    [][ \A unlinkOk \in BOOLEAN, renameOk \in BOOLEAN :
          ClearDatabaseFile(unlinkOk, renameOk) =>
              LET path == SqliteFile("zap")
                  pathBak == BackupOf(path)
              IN  /\ disk' = disk
                  /\ Threw(lastClear') =>
                         fs[path] # NoFile /\ fs'[path] = fs[path]
                  /\ (Took(lastClear', "renameSync")
                        \/ Took(lastClear', "renameSync throws")) =>
                         /\ fs[path] # NoFile
                         /\ fs[pathBak] # NoFile => Took(lastClear', "unlinkSync")
                  /\ fs[path] # NoFile => fs[path] \in {fs'[path], fs'[pathBak]}
      ]_vars

\* the most recent call deleted the old backup and threw at the rename: the
\* live file is in place and the backup path is empty
C18_Witness ==
    /\ lastClear = <<"logWarning: deleting old backup", "unlinkSync",
                     "logWarning: moving file", "renameSync throws">>
    /\ fs[SqliteFile("zap")] # NoFile
    /\ fs[BackupOf(SqliteFile("zap"))] = NoFile

----------------------------------------------------------------------------
\* the statement of C20 as written: every call that finds a live file leaves
\* that file at the backup path
C20_BackupAsClaimed ==
    [][ \A unlinkOk \in BOOLEAN, renameOk \in BOOLEAN :
          (ClearDatabaseFile(unlinkOk, renameOk) /\ fs[SqliteFile("zap")] # NoFile)
              => fs'[BackupOf(SqliteFile("zap"))] = fs[SqliteFile("zap")]
      ]_vars

\* C20: the backup path changes only in calls of clearDatabaseFile that find
\* a live file.  Such a call, when it does not throw, leaves the live file at
\* the backup path and no file at the live path, the old backup being deleted
\* before the rename and no longer at any path; when it throws at the deletion
\* it changes nothing; when it throws at the rename it leaves the live file in
\* place and no file at the backup path.  A call that finds no live file
\* changes neither path.
C20_OneBackup ==
    [][ LET path == SqliteFile("zap")
            pathBak == BackupOf(path)
            last == lastClear'[Len(lastClear')]
        IN  /\ fs'[pathBak] # fs[pathBak] =>
                   /\ fs[path] # NoFile
                   /\ \E unlinkOk \in BOOLEAN, renameOk \in BOOLEAN :
                         ClearDatabaseFile(unlinkOk, renameOk)
            /\ \A unlinkOk \in BOOLEAN, renameOk \in BOOLEAN :
                  ClearDatabaseFile(unlinkOk, renameOk) =>
                      IF fs[path] = NoFile THEN fs' = fs
                      ELSE IF last = "unlinkSync throws" THEN fs' = fs
                      ELSE IF last = "renameSync throws"
                      THEN fs' = [fs EXCEPT ![pathBak] = NoFile]
                      ELSE /\ fs' = [fs EXCEPT ![pathBak] = fs[path],
                                               ![path] = NoFile]
                           /\ fs[pathBak] # NoFile =>
                                  /\ lastClear'[2] = "unlinkSync"
                                  /\ lastClear'[4] = "renameSync"
                                  /\ \A p \in Paths : fs'[p] # fs[pathBak]
      ]_vars

\* after an earlier backup, a later call found a live file and the old
\* backup, and the backup is now the file that call found
C20_Witness ==
    /\ lastClear = <<"logWarning: deleting old backup", "unlinkSync",
                     "logWarning: moving file", "renameSync">>
    /\ fs[SqliteFile("zap")] = NoFile
    /\ fs[BackupOf(SqliteFile("zap"))] \notin
           {NoFile, PreIno(SqliteFile("zap")), PreIno(BackupOf(SqliteFile("zap")))}

----------------------------------------------------------------------------
\* the k-th call of a generation run, from the constants of the pipeline and
\* the results of its earlier calls; zapFile is no part of it
GenerationCall(i, k) ==
    CASE k = 1 -> Call("initDatabase", NoHandle, SqliteFile("generate"), 0, 0)
      [] k = 2 -> Call("resolveMainDatabase", ResultOf(i, 1).db, "none", 0, 0)
      [] k = 3 -> Call("loadSchema", ResultOf(i, 2).db, "schemaFile", 0, 0)
      [] k = 4 -> Call("loadZcl", ResultOf(i, 3).db, ZclPropertiesFile, 0, 0)
      [] k = 5 -> Call("loadTemplates", ResultOf(i, 4).db, GenTemplateJsonFile,
                       0, 0)
      [] k = 6 -> Call("createBlankSession", ResultOf(i, 2).db, "none", 0, 0)
      [] k = 7 -> Call("initializeSessionPackage", ResultOf(i, 2).db, "none",
                       ResultOf(i, 6).sessionId, 0)
      [] k = 8 -> Call("generateAndWriteFiles", ResultOf(i, 2).db, OutputDir,
                       ResultOf(i, 7).sessionId, ResultOf(i, 5).packageId)

\* the lines startGeneration prints
GenerationLines(log, zapFile) ==
    IF ~Truthy(log) THEN <<>>
    ELSE <<"Generation information",
           IF zapFile # "null" THEN "using input file"
           ELSE "using empty configuration">>

----------------------------------------------------------------------------
(* The custom-cluster test: beforeAll and the three tests, in file order *)

\* let mfgCode = 0xbead
MfgCode == 48813

Tables == <<"CLUSTER", "ATTRIBUTE", "COMMAND">>

\* the custom file of the test declares 1 cluster, 2 attributes, 1 command
CustomClusterXml == <<1, 2, 1>>

\* the custom files explored: numbers of clusters, attributes and commands
Fixtures == [1..3 -> 0..MaxRows]

TestFile == "custom-cluster.sqlite"
BuiltinZcl == "zcl.properties"
CustomFile == "custom-cluster.xml"

LastStep == 13

\* the test a step belongs to, 0 for beforeAll
TestOf(k) == IF k <= 4 THEN 0 ELSE IF k <= 7 THEN 1 ELSE IF k <= 9 THEN 2 ELSE 3

\* the first step of the test after the one step k belongs to; a failure of
\* beforeAll leaves no test to run
AfterTestOf(k) ==
    IF k <= 4 THEN LastStep + 1 ELSE IF k <= 7 THEN 8 ELSE IF k <= 9 THEN 10
    ELSE LastStep + 1

\* the table the dbAll call of a step selects from
TableOf(k) == Tables[IF k <= 7 THEN k - 4 ELSE k - 9]

\* TestCall with the identifier of the session's first package bound in
\* place of the identifier loadIndividualFile returned
TestCall_RebindsDefault(t, k) ==
    CASE k = 1 -> Call("initDatabaseAndLoadSchema", NoHandle, TestFile, 0, 0)
      [] k = 2 -> Call("loadZcl", t.db, BuiltinZcl, 0, 0)
      [] k = 3 -> Call("ensureZapUserAndSession", t.db, "USER", 0, 0)
      [] k = 4 -> Call("initializeSessionPackage", t.db, "none", t.sid, 0)
      [] k \in {5, 6, 7, 10, 11, 12} -> Call("dbAll", t.db, TableOf(k), 0, 0)
      [] k = 8 -> Call("loadIndividualFile", t.db, CustomFile, t.sid, 0)
      [] k = 9 -> Call("insertSessionPackage", t.db, "none", t.sid, 1)
      [] k = 13 -> Call("getSessionPackages", t.db, "none", t.sid, 0)

\* the call each await of the test makes, with the test's variables
TestCall(t, k) ==
    CASE k = 1 -> Call("initDatabaseAndLoadSchema", NoHandle, TestFile, 0, 0)
      [] k = 2 -> Call("loadZcl", t.db, BuiltinZcl, 0, 0)
      [] k = 3 -> Call("ensureZapUserAndSession", t.db, "USER", 0, 0)
      [] k = 4 -> Call("initializeSessionPackage", t.db, "none", t.sid, 0)
      [] k \in {5, 6, 7, 10, 11, 12} -> Call("dbAll", t.db, TableOf(k), 0, 0)
      [] k = 8 -> Call("loadIndividualFile", t.db, CustomFile, t.sid, 0)
      [] k = 9 -> Call("insertSessionPackage", t.db, "none", t.sid,
                       t.customPackageId)
      [] k = 13 -> Call("getSessionPackages", t.db, "none", t.sid, 0)

\* what an awaited call of the test returns: a handle, identifiers, a number
\* of rows, package references
Returned(db, sessionId, packageId, n, refs) ==
    [db |-> db, sessionId |-> sessionId, packageId |-> packageId, n |-> n,
     refs |-> refs]

\* the expect(...) lines that follow the await of step k
Expect(t, k, v) ==
    CASE k \in {5, 6, 7} -> v.n = 0
      [] k = 8 -> v.packageId # 0
      [] k = 10 -> v.n = 1
      [] k = 11 -> v.n = 2
      [] k = 12 -> v.n = 1
      [] k = 13 -> Cardinality(v.refs) = 2 /\ t.customPackageId \in v.refs
      [] OTHER -> TRUE

\* the assignments to the test's variables that follow the await of step k
Assigned(t, k, v) ==
    CASE k = 1 -> [t EXCEPT !.db = v.db]
      [] k = 3 -> [t EXCEPT !.sid = v.sessionId]
      [] k = 8 -> [t EXCEPT !.customPackageId = v.packageId]
      [] OTHER -> t

\* n rows of a table with a manufacturer code, introduced by a package
RowsFor(table, n, code, pkg) ==
    [j \in 1..n |-> [table |-> table, code |-> code, pkg |-> pkg]]

\* the rows a metadata file holds: the built-in metadata one cluster, one
\* attribute and one command without the manufacturer code, the custom file
\* those of the fixture with it
FileRows(path, fixture, pkg) ==
    IF path = CustomFile
    THEN RowsFor(Tables[1], fixture[1], MfgCode, pkg)
           \o RowsFor(Tables[2], fixture[2], MfgCode, pkg)
           \o RowsFor(Tables[3], fixture[3], MfgCode, pkg)
    ELSE RowsFor(Tables[1], 1, 0, pkg) \o RowsFor(Tables[2], 1, 0, pkg)
           \o RowsFor(Tables[3], 1, 0, pkg)

\* SELECT * FROM table WHERE MANUFACTURER_CODE = code
Selected(d, table, code) ==
    {j \in 1..Len(d.rows) : d.rows[j].table = table /\ d.rows[j].code = code}

\* the database of the test after a call succeeded
TestDbAfter(d, c, fixture) ==
    CASE c.stage \in {"loadZcl", "loadIndividualFile"} ->
             IF \E k \in 1..Len(d.packages) : d.packages[k] = c.arg THEN d
             ELSE [d EXCEPT !.packages = Append(@, c.arg),
                            !.rows = @ \o FileRows(c.arg, fixture,
                                                   Len(d.packages) + 1)]
      [] c.stage = "ensureZapUserAndSession" ->
             [d EXCEPT !.sessions = Append(@, {})]
      [] c.stage = "initializeSessionPackage" ->
             [d EXCEPT !.sessions[c.sessionId] = 1..Len(d.packages)]
      [] c.stage = "insertSessionPackage" ->
             [d EXCEPT !.sessions[c.sessionId] = @ \cup {c.packageId}]
      [] OTHER -> d

\* what the call returns, d being the database when the call was made
TestReturn(d, c, ino) ==
    CASE c.stage = "initDatabaseAndLoadSchema" ->
             Returned(Handle(ino, c.arg), 0, 0, 0, {})
      [] c.stage \in {"loadZcl", "loadIndividualFile"} ->
             Returned(c.db, 0, PackageIdIn(d, c.arg), 0, {})
      [] c.stage = "ensureZapUserAndSession" ->
             Returned(NoHandle, Len(d.sessions) + 1, 0, 0, {})
      [] c.stage = "initializeSessionPackage" ->
             Returned(NoHandle, c.sessionId, 0, 0, {})
      [] c.stage = "dbAll" ->
             Returned(NoHandle, 0, 0, Cardinality(Selected(d, c.arg, MfgCode)), {})
      [] c.stage = "getSessionPackages" ->
             Returned(NoHandle, 0, 0, 0, d.sessions[c.sessionId])
      [] OTHER -> Returned(NoHandle, 0, 0, 0, {})

\* the test run begins: beforeAll makes its first call
JestStart(i, fixture) ==
    /\ Alive
    /\ inv[i].mode = "none"
    /\ inv' = [inv EXCEPT ![i] =
                 LET t == [NoTest EXCEPT !.fixture = fixture, !.pc = 1]
                 IN  Begin([Unused EXCEPT !.mode = "customClusterTest",
                                          !.dbFile = TestFile, !.test = t],
                           TestCall(t, 1))]
    /\ OnlyInv

\* the awaited call succeeds; the test database is a new file, outside the
\* directory of the application's database files
TestCallSucceeds(i) ==
    LET r == inv[i]
        c == r.call
        opening == c.stage = "initDatabaseAndLoadSchema"
        ino == IF opening THEN Len(disk) + 1 ELSE c.db.ino
        before == IF opening
                  THEN [schema |-> TRUE, packages |-> <<>>, sessions |-> <<>>,
                        rows |-> <<>>]
                  ELSE disk[ino]
    IN  /\ Alive
        /\ r.mode = "customClusterTest"
        /\ r.status = "pending"
        /\ disk' = IF opening THEN Append(disk, before)
                   ELSE [disk EXCEPT ![ino] = TestDbAfter(@, c, r.test.fixture)]
        /\ inv' = [inv EXCEPT ![i] =
                     [r EXCEPT !.status = "resolved", !.call = NoCall,
                               !.done = Append(@, c.stage),
                               !.test.seen =
                                   Append(@, [k |-> r.test.pc,
                                              v |-> TestReturn(before, c, ino),
                                              bound |->
                                                  IF r.test.sid = 0 THEN {}
                                                  ELSE disk'[ino].sessions[r.test.sid]])]]
        /\ UNCHANGED <<fs, mainDatabase, envLog, console, quitCalls, serverUp,
                       uiShown, dockHidden, output, exitCode, creates, lastClear>>

\* the awaited call rejects
TestCallFails(i) ==
    /\ Alive
    /\ inv[i].mode = "customClusterTest"
    /\ inv[i].status = "pending"
    /\ inv' = [inv EXCEPT ![i] =
                 [@ EXCEPT !.status = "rejected", !.err = inv[i].call.stage,
                           !.call = NoCall]]
    /\ OnlyInv

\* the run goes on at step k, or is over
GoOn(r, t, k) ==
    IF k > LastStep
    THEN [r EXCEPT !.status = "fulfilled", !.test = [t EXCEPT !.pc = k]]
    ELSE Begin([r EXCEPT !.test = [t EXCEPT !.pc = k]], TestCall(t, k))

\* the code after an await: the expectations on what the call returned, the
\* assignments, and the next await; a failed expectation ends the test
AfterAwait(i) ==
    LET r == inv[i]
        t == r.test
        k == t.pc
        v == t.seen[Len(t.seen)].v
    IN  /\ Alive
        /\ r.mode = "customClusterTest"
        /\ r.status = "resolved"
        /\ inv' = [inv EXCEPT ![i] =
                     IF Expect(t, k, v)
                     THEN GoOn(r, Assigned(t, k, v), k + 1)
                     ELSE GoOn(r, [t EXCEPT !.failed = @ \cup {TestOf(k)}],
                               AfterTestOf(k))]
        /\ OnlyInv

\* the rejection of an awaited call ends the test it is in
AfterReject(i) ==
    LET r == inv[i]
        t == r.test
    IN  /\ Alive
        /\ r.mode = "customClusterTest"
        /\ r.status = "rejected"
        /\ inv' = [inv EXCEPT ![i] =
                     GoOn(r, [t EXCEPT !.failed = @ \cup {TestOf(t.pc)}],
                          AfterTestOf(t.pc))]
        /\ OnlyInv

InitCustomPackage == Init /\ \A p \in Paths : fs[p] = NoFile

NextCustomPackage ==
    \/ \E f \in Fixtures : JestStart(1, f)
    \/ TestCallSucceeds(1)
    \/ TestCallFails(1)
    \/ AfterAwait(1)
    \/ AfterReject(1)

SpecCustomPackage == InitCustomPackage /\ [][NextCustomPackage]_vars

\* what the await of step k returned, when it returned
SeenAt(t, k) == {n \in 1..Len(t.seen) : t.seen[n].k = k}

====
